---- MODULE Spec2Model ----
(***************************************************************************)
(* A model of the producer / consumer / filter combinator library          *)
(* (consumers_and_producers.h), of its read-write projection layer          *)
(* (read_write_filters.h) and of the protobuf accessor tables and fixtures  *)
(* of the tests that exercise them.                                         *)
(*                                                                          *)
(* Every C++ closure is a record: its field op names the function that      *)
(* built it and the other fields are the values the lambda captured by      *)
(* copy.  Three mutually recursive operators run closures:                  *)
(*   Invoke(p, c, st)   Producer::operator()(c)                             *)
(*   Consume(c, t, st)  Consumer::operator()(t)                             *)
(*   Call(f, args, st)  std::function::operator()(args...)                  *)
(* st is the part of the program state a traversal can change: the test     *)
(* fixture's recorder, the record tree, and the accessor calls made.        *)
(***************************************************************************)
EXTENDS Integers, Sequences, FiniteSets, TLC

VARIABLES test, args, pc, expected, actual, company0, company, probe

vars == <<test, args, pc, expected, actual, company0, company, probe>>

\* Largest number of values one sample filter yields for one input.
MaxOut == 2
\* Largest number of values a sample producer yields.
MaxLen == 2
\* Largest number of teams of a company, and of members of a team.
MaxTeams == 2
MaxMembers == 1
\* Producers crossed by PCross and LiftA: 2..MaxArity.
MaxArity == 3

RECURSIVE Invoke(_, _, _)
RECURSIVE Consume(_, _, _)
RECURSIVE Call(_, _, _)
RECURSIVE Step(_, _, _, _)

(***************************************************************************)
(* Traversal state.                                                        *)
(***************************************************************************)
\* flight_record_: the fixture's recorder; company: the record tree;
\* rwcalls: mutable accessors invoked; views: RW views handed to a stage or
\* consumer; fault: a null handle was dereferenced; aborted: the run ended
\* in a crash.
NewSt(tree) ==
  [flight_record_ |-> <<>>, company |-> tree, rwcalls |-> 0,
   views |-> {}, fault |-> FALSE, aborted |-> FALSE]

(***************************************************************************)
(* Producers.                                                              *)
(***************************************************************************)
PZero == [op |-> "PZero"]

PZero_call(c, st) == st

PUnit(x) == [op |-> "PUnit", x |-> x]

\* A unit producer that delivers nothing.
PUnit_call_dropped(x, c, st) == st

PUnit_call(x, c, st) == Consume(c, x, st)

PPlus(p1, p2) == [op |-> "PPlus", p1 |-> p1, p2 |-> p2]

\* Producer sums that run p1 only, and p2 before p1.
PPlus_call_first(p1, p2, c, st) == Invoke(p1, c, st)

PPlus_call_swapped(p1, p2, c, st) == Invoke(p1, c, Invoke(p2, c, st))

PPlus_call(p1, p2, c, st) == Invoke(p2, c, Invoke(p1, c, st))

Fmap_c_A(f, c_B) == [op |-> "Fmap_c_A", f |-> f, c_B |-> c_B]

Fmap_c_A_call(f, c_B, x, st) ==
  LET r == Call(f, <<x>>, st) IN Consume(c_B, r.ret, r.st)

Fmap(f, p) == [op |-> "Fmap", f |-> f, p |-> p]

Fmap_call(f, p, c_B, st) == Invoke(p, Fmap_c_A(f, c_B), st)

PJoin_c_PA(c) == [op |-> "PJoin_c_PA", c |-> c]

\* A flattening consumer that never runs the producers it is handed.
PJoin_c_PA_call_dropped(c, p, st) == st

PJoin_c_PA_call(c, p, st) == Invoke(p, c, st)

PJoin(p_PA) == [op |-> "PJoin", p_PA |-> p_PA]

PJoin_call(p_PA, c, st) == Invoke(p_PA, PJoin_c_PA(c), st)

PBind(p, f) == PJoin(Fmap(f, p))

\* The test fixtures' Produce(vector<T> ts).
Produce(ts) == [op |-> "Produce", ts |-> ts]

RECURSIVE Produce_loop(_, _, _, _)
Produce_loop(ts, k, c, st) ==
  IF st.fault \/ k > Len(ts) THEN st
  ELSE Produce_loop(ts, k + 1, c, Consume(c, ts[k], st))

\* A producer with state: it delivers only while nothing has been recorded.
Produce_call_once(ts, c, st) ==
  IF st.flight_record_ = <<>> THEN Produce_loop(ts, 1, c, st) ELSE st

Produce_call(ts, c, st) == Produce_loop(ts, 1, c, st)

(***************************************************************************)
(* Consumers.                                                              *)
(***************************************************************************)
CZero == [op |-> "CZero"]

CZero_call(x, st) == st

CPlus(c1, c2) == [op |-> "CPlus", c1 |-> c1, c2 |-> c2]

\* Consumer sums that call c1 only, and c2 before c1.
CPlus_call_first(c1, c2, t, st) == Consume(c1, t, st)

CPlus_call_swapped(c1, c2, t, st) == Consume(c1, t, Consume(c2, t, st))

CPlus_call(c1, c2, t, st) == Consume(c2, t, Consume(c1, t, st))

\* The fixture's recording consumers: one (value, mark) record per mark.
Recorder(marks) == [op |-> "Recorder", marks |-> marks]

Recorder_call(marks, x, st) ==
  [st EXCEPT !.flight_record_ =
     @ \o [k \in 1..Len(marks) |-> <<x, marks[k]>>]]

(***************************************************************************)
(* Effects.                                                                *)
(***************************************************************************)
Fuse(p, c) == [op |-> "Fuse", p |-> p, c |-> c]

\* An effect that does nothing when invoked.
Fuse_call_dropped(p, c, st) == st

Fuse_call(p, c, st) == Invoke(p, c, st)

\* CPTest::Fusing: clear the recorder, run the effect, return the record.
Fusing(p, c, st) ==
  LET e == Fuse(p, c)
  IN Fuse_call(e.p, e.c, [st EXCEPT !.flight_record_ = <<>>])

(***************************************************************************)
(* Filters.                                                                *)
(***************************************************************************)
KleisliComposition(f, g) == [op |-> "KleisliComposition", f |-> f, g |-> g]

\* Kleisli compositions with the stages mixed up: f(x) | f, and g(x) alone.
KleisliComposition_call_again(f, g, x, st) ==
  LET r == Call(f, <<x>>, st) IN [ret |-> PBind(r.ret, f), st |-> r.st]

KleisliComposition_call_skip(f, g, x, st) == Call(g, <<x>>, st)

KleisliComposition_call(f, g, x, st) ==
  LET r == Call(f, <<x>>, st) IN [ret |-> PBind(r.ret, g), st |-> r.st]

\* operator+ on filters.  C++ leaves the order of f(x) and g(x) unspecified;
\* the applications change no state the other one reads.
FPlus(f, g) == [op |-> "FPlus", f |-> f, g |-> g]

\* A tee that delivers g's values before f's.
FPlus_call_swapped(f, g, x, st) ==
  LET r1 == Call(f, <<x>>, st)
      r2 == Call(g, <<x>>, r1.st)
  IN [ret |-> PPlus(r2.ret, r1.ret), st |-> r2.st]

FPlus_call(f, g, x, st) ==
  LET r1 == Call(f, <<x>>, st)
      r2 == Call(g, <<x>>, r1.st)
  IN [ret |-> PPlus(r1.ret, r2.ret), st |-> r2.st]

\* The tests' sample filters: x |-> PUnit(x + s) and
\* x |-> PUnit(x + s) + PUnit(s + x), generalised to any sequence of
\* "app" (x + s) and "pre" (s + x) summands; no summand is PZero.
SampleFilter(tag, shape) == [op |-> "SampleFilter", tag |-> tag, shape |-> shape]

Emit(tag, kind, k, x) ==
  IF kind = "app" THEN x \o << <<tag, k>> >> ELSE << <<tag, k>> >> \o x

RECURSIVE SampleSum(_, _, _, _)
SampleSum(tag, shape, k, x) ==
  IF k > Len(shape) THEN PZero
  ELSE IF k = Len(shape) THEN PUnit(Emit(tag, shape[k], k, x))
  ELSE PPlus(PUnit(Emit(tag, shape[k], k, x)), SampleSum(tag, shape, k + 1, x))

SampleFilter_call(tag, shape, x, st) ==
  [ret |-> SampleSum(tag, shape, 1, x), st |-> st]

\* Filter<Value, Value> PUnitFilter{PUnit<Value>}.
PUnitFilter == [op |-> "PUnitFilter"]

PUnitFilter_call(x, st) == [ret |-> PUnit(x), st |-> st]

(***************************************************************************)
(* Applicative layer and cross products.                                   *)
(***************************************************************************)
\* The functions of the applicative tests: AddTen, Double and IntString.
IntFn(kind) == [op |-> "IntFn", kind |-> kind]

IntFn_call(kind, x, st) ==
  [ret |-> IF kind = "AddTen" THEN x + 10 ELSE 2 * x, st |-> st]

IntString == [op |-> "IntString"]

IntString_call(i, s, st) == [ret |-> <<i, s>>, st |-> st]

\* The filter PApply binds p_FnAB to: f |-> Fmap(f, p_A).
PApply_fn(p_A) == [op |-> "PApply_fn", p_A |-> p_A]

PApply_fn_call(p_A, f, st) == [ret |-> Fmap(f, p_A), st |-> st]

\* An application whose argument producer is the outer loop.
PApply_args_outer(p_FnAB, p_A) ==
  PBind(Fmap([op |-> "flip_app"], p_A), PApply_fn(p_FnAB))

PApply(p_FnAB, p_A) == PBind(p_FnAB, PApply_fn(p_A))

\* Bind = (xs...) |-> std::bind(f, _1, xs...), and the bound function.
LiftA_Bind(f) == [op |-> "LiftA_Bind", f |-> f]

std_bind(f, xs) == [op |-> "std_bind", f |-> f, xs |-> xs]

LiftA_Bind_call(f, xs, st) == [ret |-> std_bind(f, xs), st |-> st]

\* A bound function whose placeholder is last: std::bind(f, xs..., _1).
std_bind_call_appended(f, xs, a, st) == Call(f, xs \o a, st)

std_bind_call(f, xs, a, st) == Call(f, a \o xs, st)

\* flip_app = x |-> (g |-> g(x)).
flip_app == [op |-> "flip_app"]

flip_app_g(x) == [op |-> "flip_app_g", x |-> x]

flip_app_call(x, st) == [ret |-> flip_app_g(x), st |-> st]

flip_app_g_call(x, g, st) == Call(g, <<x>>, st)

\* LiftA(f)(ps...): the unary overload is Fmap; the n-ary one peels the
\* first producer off and recurses on Bind.
RECURSIVE LiftA(_, _)
LiftA(f, ps) ==
  IF Len(ps) = 1 THEN Fmap(f, ps[1])
  ELSE PApply(Fmap(flip_app, ps[1]), LiftA(LiftA_Bind(f), Tail(ps)))

make_tuple_byval == [op |-> "make_tuple_byval"]

make_tuple_byval_call(xs, st) == [ret |-> xs, st |-> st]

PCross(ps) == LiftA(make_tuple_byval, ps)

\* _TupleHelper::ApplyElementwise: funs[k] applied to tup[k], left to right
\* (C++ leaves the order unspecified; see FPlus).  Returns the results and
\* the state after the applications.
RECURSIVE ApplyElementwise(_, _, _, _, _)
ApplyElementwise(funs, tup, k, acc, st) ==
  IF k > Len(funs) THEN [ret |-> acc, st |-> st]
  ELSE LET r == Call(funs[k], <<tup[k]>>, st)
       IN ApplyElementwise(funs, tup, k + 1, Append(acc, r.ret), r.st)

FCross(filters) == [op |-> "FCross", filters |-> filters]

FCross_call(filters, tup, st) ==
  LET r == ApplyElementwise(filters, tup, 1, <<>>, st)
  IN [ret |-> PCross(r.ret), st |-> r.st]

FFork(filters) == [op |-> "FFork", filters |-> filters]

\* A fork that crosses the filters' results in reverse.
FFork_call_reversed(filters, x, st) ==
  LET r == ApplyElementwise(filters, [k \in 1..Len(filters) |-> x], 1, <<>>, st)
      n == Len(r.ret)
  IN [ret |-> PCross([k \in 1..n |-> r.ret[n + 1 - k]]), st |-> r.st]

FFork_call(filters, x, st) ==
  LET r == ApplyElementwise(filters, [k \in 1..Len(filters) |-> x], 1, <<>>, st)
  IN [ret |-> PCross(r.ret), st |-> r.st]

(***************************************************************************)
(* The record tree and its generated accessors (example.pb.h).             *)
(*                                                                         *)
(* An address is a path of <<field, index>> steps; the first step names    *)
(* the object the path starts at.  NULL is the null pointer.  A Company is *)
(* [has_name, name, teams], a Team [has_name, name, has_manager, manager,  *)
(* members], a Person [has_name, name]; a string is a sequence of tags.    *)
(***************************************************************************)
NULL == <<>>

Root == << <<"company", 0>> >>

\* The shared objects the getter of an unset field refers to.
kEmptyString == << <<"kEmptyString", 0>> >>

default_Person == << <<"default_Person", 0>> >>

EmptyString == <<>>

NoPerson == [has_name |-> FALSE, name |-> EmptyString]

RECURSIVE Nav(_, _)
Nav(obj, path) ==
  IF path = <<>> THEN obj
  ELSE LET s == path[1]
       IN Nav(IF s[1] = "elem" THEN obj[s[2]] ELSE obj[s[1]], Tail(path))

RECURSIVE Put(_, _, _)
Put(obj, path, val) ==
  IF path = <<>> THEN val
  ELSE LET s == path[1]
           k == IF s[1] = "elem" THEN s[2] ELSE s[1]
       IN [obj EXCEPT ![k] = Put(obj[k], Tail(path), val)]

\* The object at address a.
Deref(tree, a) ==
  IF a = kEmptyString THEN EmptyString
  ELSE IF a = default_Person THEN NoPerson
  ELSE Nav(tree, Tail(a))

At(a, field, k) == a \o << <<field, k>> >>

\* bool P::has_name() const, bool P::has_manager() const.
PB_has(tree, p, hasa) ==
  IF hasa = "has_name" THEN Deref(tree, p).has_name ELSE Deref(tree, p).has_manager

\* const F& P::name() const, manager(), teams(), members(): an unset string
\* or message field reads as the shared default object; a repeated field is
\* a member of the record itself.
PB_get(tree, p, roa) ==
  CASE roa = "name" ->
         IF PB_has(tree, p, "has_name") THEN At(p, "name", 0) ELSE kEmptyString
    [] roa = "manager" ->
         IF PB_has(tree, p, "has_manager") THEN At(p, "manager", 0)
         ELSE default_Person
    [] roa = "teams" -> At(p, "teams", 0)
    [] roa = "members" -> At(p, "members", 0)

\* F* P::mutable_name(), mutable_manager(), mutable_teams(),
\* mutable_members(): the field of this record, created and marked present
\* when it was unset.  Returns the pointer and the tree after the call.
PB_mutable(tree, p, rwa) ==
  CASE rwa = "mutable_name" ->
         [ret |-> At(p, "name", 0),
          tree |-> Put(tree, Tail(At(p, "has_name", 0)), TRUE)]
    [] rwa = "mutable_manager" ->
         [ret |-> At(p, "manager", 0),
          tree |-> Put(tree, Tail(At(p, "has_manager", 0)), TRUE)]
    [] rwa = "mutable_teams" -> [ret |-> At(p, "teams", 0), tree |-> tree]
    [] rwa = "mutable_members" -> [ret |-> At(p, "members", 0), tree |-> tree]

(***************************************************************************)
(* Read-write views and the accessor filters (ProtoAccessors<P>).          *)
(***************************************************************************)
RW(ro, rw) == [ro |-> ro, rw |-> rw]

\* Instrumentation: remember a view handed to a stage or to a consumer.
LogView(st, v) == [st EXCEPT !.views = @ \cup {v}]

\* access(const P& p, ROA<F> roa).
access_ro(p, roa, st) == PB_get(st.company, p, roa)

\* access(P* p, RWA<F> rwa).
\* A mutable access without the null check: (p->*rwa)() on any p.
access_rw_unchecked(p, rwa, st) ==
  IF p = NULL THEN [ret |-> NULL, st |-> [st EXCEPT !.fault = TRUE]]
  ELSE LET m == PB_mutable(st.company, p, rwa)
       IN [ret |-> m.ret, st |-> [st EXCEPT !.company = m.tree, !.rwcalls = @ + 1]]

access_rw(p, rwa, st) ==
  IF p # NULL
  THEN LET m == PB_mutable(st.company, p, rwa)
       IN [ret |-> m.ret, st |-> [st EXCEPT !.company = m.tree, !.rwcalls = @ + 1]]
  ELSE [ret |-> NULL, st |-> st]

\* access(const P& p, TestA hasa).
access_has(p, hasa, st) == PB_has(st.company, p, hasa)

optional_obj(hasa, roa, rwa) ==
  [op |-> "optional_obj", hasa |-> hasa, roa |-> roa, rwa |-> rwa]

\* Optional accessors that skip the presence test, and that run the mutable
\* accessor before it.
optional_obj_call_untested(hasa, roa, rwa, rwp, st) ==
  LET s0 == LogView(st, rwp)
      ro == access_ro(rwp.ro, roa, s0)
      w == access_rw(rwp.rw, rwa, s0)
  IN [ret |-> PUnit(RW(ro, w.ret)), st |-> w.st]

optional_obj_call_eager(hasa, roa, rwa, rwp, st) ==
  LET s0 == LogView(st, rwp)
      ro == access_ro(rwp.ro, roa, s0)
      w == access_rw(rwp.rw, rwa, s0)
  IN IF access_has(rwp.ro, hasa, s0)
     THEN [ret |-> PUnit(RW(ro, w.ret)), st |-> w.st]
     ELSE [ret |-> PZero, st |-> w.st]

optional_obj_call(hasa, roa, rwa, rwp, st) ==
  LET s0 == LogView(st, rwp)
  IN IF access_has(rwp.ro, hasa, s0)
     THEN LET ro == access_ro(rwp.ro, roa, s0)
              w == access_rw(rwp.rw, rwa, s0)
          IN [ret |-> PUnit(RW(ro, w.ret)), st |-> w.st]
     ELSE [ret |-> PZero, st |-> s0]

required_obj(roa, rwa) == [op |-> "required_obj", roa |-> roa, rwa |-> rwa]

required_obj_call(roa, rwa, rwp, st) ==
  LET s0 == LogView(st, rwp)
      ro == access_ro(rwp.ro, roa, s0)
      w == access_rw(rwp.rw, rwa, s0)
  IN [ret |-> PUnit(RW(ro, w.ret)), st |-> w.st]

\* The filter scan_ptrs<F>() and the producer it returns.
scan_ptrs == [op |-> "scan_ptrs"]

scan_ptrs_p(rw_rpf) == [op |-> "scan_ptrs_p", rw_rpf |-> rw_rpf]

scan_ptrs_call(rw_rpf, st) ==
  [ret |-> scan_ptrs_p(rw_rpf), st |-> LogView(st, rw_rpf)]

\* A scan whose mutable index is never advanced: Mutable(0) for every element.
RECURSIVE scan_ptrs_loop_first(_, _, _, _, _)
scan_ptrs_loop_first(rw_rpf, i, n, c, st) ==
  IF st.fault \/ i > n THEN st
  ELSE LET has_rw == rw_rpf.rw # NULL
           elem == RW(At(rw_rpf.ro, "elem", i),
                      IF has_rw THEN At(rw_rpf.rw, "elem", 1) ELSE NULL)
           s1 == IF has_rw THEN [st EXCEPT !.rwcalls = @ + 1] ELSE st
       IN scan_ptrs_loop_first(rw_rpf, i + 1, n, c, Consume(c, elem, s1))

\* for (const F& ro_elem : rw_rpf.ro) over the n elements found at entry.
RECURSIVE scan_ptrs_loop(_, _, _, _, _)
scan_ptrs_loop(rw_rpf, i, n, c, st) ==
  IF st.fault \/ i > n THEN st
  ELSE LET has_rw == rw_rpf.rw # NULL
           elem == RW(At(rw_rpf.ro, "elem", i),
                      IF has_rw THEN At(rw_rpf.rw, "elem", i) ELSE NULL)
           s1 == IF has_rw THEN [st EXCEPT !.rwcalls = @ + 1] ELSE st
       IN scan_ptrs_loop(rw_rpf, i + 1, n, c, Consume(c, elem, s1))

scan_ptrs_p_call(rw_rpf, c, st) ==
  scan_ptrs_loop(rw_rpf, 1, Len(Deref(st.company, rw_rpf.ro)), c, st)

repeated_obj(roa, rwa) == KleisliComposition(required_obj(roa, rwa), scan_ptrs)

CompanyA ==
  [name |-> required_obj("name", "mutable_name"),
   teams |-> repeated_obj("teams", "mutable_teams"),
   teams_coll |-> required_obj("teams", "mutable_teams")]

TeamA ==
  [manager |-> optional_obj("has_manager", "manager", "mutable_manager"),
   members |-> repeated_obj("members", "mutable_members"),
   members_coll |-> required_obj("members", "mutable_members"),
   name |-> optional_obj("has_name", "name", "mutable_name")]

PersonA == [name |-> required_obj("name", "mutable_name")]

(***************************************************************************)
(* ReadOnly and ReadWrite (read_write_filters.h).                          *)
(***************************************************************************)
ReadOnly_rwc(roc) == [op |-> "ReadOnly_rwc", roc |-> roc]

ReadOnly_rwc_call(roc, rwval, st) == Consume(roc, rwval.ro, LogView(st, rwval))

\* The producer ReadOnly(rwfilt)(p) returns: [=] captures the record p
\* refers to by copy, so the closure owns a copy of it.
ReadOnly_p(rwfilt, p) == [op |-> "ReadOnly_p", rwfilt |-> rwfilt, p |-> p]

\* rwfilt(RW<P>{p, nullptr})(rwc), p being the closure's copy: for the time
\* of the call the addresses start at that copy.
ReadOnly_p_call(rwfilt, p, roc, st) ==
  LET r == Call(rwfilt, <<RW(Root, NULL)>>, [st EXCEPT !.company = p])
      s1 == Invoke(r.ret, ReadOnly_rwc(roc), r.st)
  IN [s1 EXCEPT !.company = st.company]

ReadOnly(rwfilt) == [op |-> "ReadOnly", rwfilt |-> rwfilt]

ReadOnly_call(rwfilt, p, st) ==
  [ret |-> ReadOnly_p(rwfilt, Deref(st.company, p)), st |-> st]

ReadWrite_rwc(mpc) == [op |-> "ReadWrite_rwc", mpc |-> mpc]

ReadWrite_rwc_call(mpc, rwval, st) == Consume(mpc, rwval.rw, LogView(st, rwval))

ReadWrite_p(rwfilt, p) == [op |-> "ReadWrite_p", rwfilt |-> rwfilt, p |-> p]

\* rwfilt(RW<P>{*p, p})(rwc).  *p on a null p is undefined behaviour: the
\* traversal is abandoned with fault set and the caller draws the outcome.
ReadWrite_p_call(rwfilt, p, mpc, st) ==
  IF p = NULL THEN [st EXCEPT !.fault = TRUE]
  ELSE LET r == Call(rwfilt, <<RW(p, p)>>, st)
       IN Invoke(r.ret, ReadWrite_rwc(mpc), r.st)

ReadWrite(rwfilt) == [op |-> "ReadWrite", rwfilt |-> rwfilt]

\* ReadWrite without its null check.
ReadWrite_call_unchecked(rwfilt, p, st) ==
  [ret |-> ReadWrite_p(rwfilt, p), st |-> st]

ReadWrite_call(rwfilt, p, st) ==
  IF p = NULL THEN [ret |-> PZero, st |-> st]
  ELSE [ret |-> ReadWrite_p(rwfilt, p), st |-> st]

\* _RWTupleHelper::TupleRO and TupleRW.
TupleRO(tup) == [k \in 1..Len(tup) |-> tup[k].ro]

\* A projection that hands the mutable handles over in reverse position.
TupleRW_reversed(tup) == [k \in 1..Len(tup) |-> tup[Len(tup) + 1 - k].rw]

TupleRW(tup) == [k \in 1..Len(tup) |-> tup[k].rw]

LogViews(st, tup) == [st EXCEPT !.views = @ \cup {tup[k] : k \in 1..Len(tup)}]

ReadOnlyTuple_rwc(roc) == [op |-> "ReadOnlyTuple_rwc", roc |-> roc]

ReadOnlyTuple_rwc_call(roc, rwval, st) ==
  Consume(roc, TupleRO(rwval), LogViews(st, rwval))

ReadOnlyTuple_p(rwfilt, p) == [op |-> "ReadOnlyTuple_p", rwfilt |-> rwfilt, p |-> p]

ReadOnlyTuple_p_call(rwfilt, p, roc, st) ==
  LET r == Call(rwfilt, <<RW(Root, NULL)>>, [st EXCEPT !.company = p])
      s1 == Invoke(r.ret, ReadOnlyTuple_rwc(roc), r.st)
  IN [s1 EXCEPT !.company = st.company]

ReadOnlyTuple(rwfilt) == [op |-> "ReadOnlyTuple", rwfilt |-> rwfilt]

ReadOnlyTuple_call(rwfilt, p, st) ==
  [ret |-> ReadOnlyTuple_p(rwfilt, Deref(st.company, p)), st |-> st]

ReadWriteTuple_rwc(mpc) == [op |-> "ReadWriteTuple_rwc", mpc |-> mpc]

ReadWriteTuple_rwc_call(mpc, rwval, st) ==
  Consume(mpc, TupleRW(rwval), LogViews(st, rwval))

ReadWriteTuple_p(rwfilt, p) == [op |-> "ReadWriteTuple_p", rwfilt |-> rwfilt, p |-> p]

ReadWriteTuple_p_call(rwfilt, p, mpc, st) ==
  IF p = NULL THEN [st EXCEPT !.fault = TRUE]
  ELSE LET r == Call(rwfilt, <<RW(p, p)>>, st)
       IN Invoke(r.ret, ReadWriteTuple_rwc(mpc), r.st)

ReadWriteTuple(rwfilt) == [op |-> "ReadWriteTuple", rwfilt |-> rwfilt]

ReadWriteTuple_call(rwfilt, p, st) ==
  [ret |-> ReadWriteTuple_p(rwfilt, p), st |-> st]

(***************************************************************************)
(* The consumers of the protobuf tests.                                    *)
(***************************************************************************)
\* add_to_names: names.push_back(name).
add_to_names == [op |-> "add_to_names"]

add_to_names_call(name, st) ==
  [st EXCEPT !.flight_record_ = Append(@, Deref(st.company, name))]

\* A Consumer<string*> that rewrites what it is handed, as unmask_xmen and
\* the "(managed)" marker do: *name += mark.
rewrite_name(mark) == [op |-> "rewrite_name", mark |-> mark]

rewrite_name_call(mark, name, st) ==
  IF name = NULL THEN [st EXCEPT !.fault = TRUE]
  ELSE [st EXCEPT !.company =
          Put(@, Tail(name), Deref(@, name) \o << mark >>)]

\* add_manager_member: manager_member_tuples.push_back(x), x a tuple of
\* strings copied from the references handed over.
add_manager_member == [op |-> "add_manager_member"]

add_manager_member_call(x, st) ==
  [st EXCEPT !.flight_record_ =
     Append(@, [k \in 1..Len(x) |-> Deref(st.company, x[k])])]

\* The mark the consumer of managed members appends.
Managed == <<"managed", 0, 0>>

\* [](string* /*manager*/, string* member_name) { *member_name += mark; },
\* called with the tuple's contents.
mark_managed == [op |-> "mark_managed"]

mark_managed_call(x, st) == rewrite_name_call(Managed, x[2], st)

(***************************************************************************)
(* Dispatch on the closure.                                                *)
(***************************************************************************)
\* One std::function call: of a producer f on a consumer a (Invoke), of a
\* consumer f on a value a (Consume), or of a function f on its arguments a
\* (Call).
\* Dereferencing a null handle is undefined behaviour: the traversal state is
\* frozen there and Outcomes chooses what the build does with it.
Step(kind, f, a, st) ==
  CASE st.fault -> IF kind = "Call" THEN [ret |-> PZero, st |-> st] ELSE st
    [] f.op = "PZero" -> PZero_call(a, st)
    [] f.op = "PUnit" -> PUnit_call(f.x, a, st)
    [] f.op = "PPlus" -> PPlus_call(f.p1, f.p2, a, st)
    [] f.op = "Fmap" -> Fmap_call(f.f, f.p, a, st)
    [] f.op = "PJoin" -> PJoin_call(f.p_PA, a, st)
    [] f.op = "Produce" -> Produce_call(f.ts, a, st)
    [] f.op = "scan_ptrs_p" -> scan_ptrs_p_call(f.rw_rpf, a, st)
    [] f.op = "ReadOnly_p" -> ReadOnly_p_call(f.rwfilt, f.p, a, st)
    [] f.op = "ReadWrite_p" -> ReadWrite_p_call(f.rwfilt, f.p, a, st)
    [] f.op = "ReadOnlyTuple_p" -> ReadOnlyTuple_p_call(f.rwfilt, f.p, a, st)
    [] f.op = "ReadWriteTuple_p" -> ReadWriteTuple_p_call(f.rwfilt, f.p, a, st)
    [] f.op = "CZero" -> CZero_call(a, st)
    [] f.op = "CPlus" -> CPlus_call(f.c1, f.c2, a, st)
    [] f.op = "Recorder" -> Recorder_call(f.marks, a, st)
    [] f.op = "Fmap_c_A" -> Fmap_c_A_call(f.f, f.c_B, a, st)
    [] f.op = "PJoin_c_PA" -> PJoin_c_PA_call(f.c, a, st)
    [] f.op = "ReadOnly_rwc" -> ReadOnly_rwc_call(f.roc, a, st)
    [] f.op = "ReadWrite_rwc" -> ReadWrite_rwc_call(f.mpc, a, st)
    [] f.op = "ReadOnlyTuple_rwc" -> ReadOnlyTuple_rwc_call(f.roc, a, st)
    [] f.op = "ReadWriteTuple_rwc" -> ReadWriteTuple_rwc_call(f.mpc, a, st)
    [] f.op = "add_to_names" -> add_to_names_call(a, st)
    [] f.op = "rewrite_name" -> rewrite_name_call(f.mark, a, st)
    [] f.op = "add_manager_member" -> add_manager_member_call(a, st)
    [] f.op = "mark_managed" -> mark_managed_call(a, st)
    [] f.op = "KleisliComposition" -> KleisliComposition_call(f.f, f.g, a[1], st)
    [] f.op = "FPlus" -> FPlus_call(f.f, f.g, a[1], st)
    [] f.op = "SampleFilter" -> SampleFilter_call(f.tag, f.shape, a[1], st)
    [] f.op = "PUnitFilter" -> PUnitFilter_call(a[1], st)
    [] f.op = "PApply_fn" -> PApply_fn_call(f.p_A, a[1], st)
    [] f.op = "LiftA_Bind" -> LiftA_Bind_call(f.f, a, st)
    [] f.op = "std_bind" -> std_bind_call(f.f, f.xs, a, st)
    [] f.op = "flip_app" -> flip_app_call(a[1], st)
    [] f.op = "flip_app_g" -> flip_app_g_call(f.x, a[1], st)
    [] f.op = "make_tuple_byval" -> make_tuple_byval_call(a, st)
    [] f.op = "IntFn" -> IntFn_call(f.kind, a[1], st)
    [] f.op = "IntString" -> IntString_call(a[1], a[2], st)
    [] f.op = "FCross" -> FCross_call(f.filters, a[1], st)
    [] f.op = "FFork" -> FFork_call(f.filters, a[1], st)
    [] f.op = "optional_obj" -> optional_obj_call(f.hasa, f.roa, f.rwa, a[1], st)
    [] f.op = "required_obj" -> required_obj_call(f.roa, f.rwa, a[1], st)
    [] f.op = "scan_ptrs" -> scan_ptrs_call(a[1], st)
    [] f.op = "ReadOnly" -> ReadOnly_call(f.rwfilt, a[1], st)
    [] f.op = "ReadWrite" -> ReadWrite_call(f.rwfilt, a[1], st)
    [] f.op = "ReadOnlyTuple" -> ReadOnlyTuple_call(f.rwfilt, a[1], st)
    [] f.op = "ReadWriteTuple" -> ReadWriteTuple_call(f.rwfilt, a[1], st)

Invoke(p, c, st) == Step("Invoke", p, c, st)

Consume(c, t, st) == Step("Consume", c, t, st)

Call(f, a, st) == Step("Call", f, a, st)

\* filter(x)(c) on a cleared recorder: what the consumer c is handed.
RunFilter(f, x, c, st) ==
  LET r == Call(f, <<x>>, [st EXCEPT !.flight_record_ = <<>>])
  IN Invoke(r.ret, c, r.st)

(***************************************************************************)
(* Test inputs.                                                            *)
(***************************************************************************)
RECURSIVE SeqsUpTo(_, _)
SeqsUpTo(S, n) ==
  IF n = 0 THEN {<<>>}
  ELSE LET R == SeqsUpTo(S, n - 1)
       IN R \cup {Append(s, e) : s \in {r \in R : Len(r) = n - 1}, e \in S}

Shapes == SeqsUpTo({"app", "pre"}, MaxOut)

Inputs == { << <<"a", 1>> >>, << <<"a", 2>> >> }

\* CPTest::consumers_.
Consumers == {CZero, Recorder(<<"c1">>), Recorder(<<"c2-1", "c2-2">>)}

\* CPTest::producers_, generalised to 0..MaxLen values.
Producers == {Produce([k \in 1..n |-> << <<"p", k>> >>]) : n \in 0..MaxLen}

NoCompany == [name |-> "none"]

NoArgs ==
  [f |-> PUnitFilter, g |-> PUnitFilter, h |-> PUnitFilter, i |-> PUnitFilter,
   x |-> << <<"a", 1>> >>, p |-> PZero, c |-> CZero,
   p1 |-> PZero, p2 |-> PZero, c1 |-> CZero, c2 |-> CZero, ps |-> <<>>,
   e |-> Fuse(PZero, CZero)]

InitTee ==
  /\ test = "tee"
  /\ \E sf \in Shapes, sg \in Shapes, sh \in Shapes, xx \in Inputs, cc \in Consumers :
       args = [NoArgs EXCEPT !.f = SampleFilter("f", sf), !.g = SampleFilter("g", sg),
                             !.h = SampleFilter("h", sh), !.x = xx, !.c = cc]

\* Sample filters that yield n values x + s1, ..., x + sn.
Fans == {[k \in 1..n |-> "app"] : n \in 0..MaxOut}

InitForkCross ==
  /\ test = "forkcross"
  /\ \E sf \in Fans, sg \in Fans, sh \in Fans, si \in Fans, xx \in Inputs :
       args = [NoArgs EXCEPT !.f = SampleFilter("f", sf), !.g = SampleFilter("g", sg),
                             !.h = SampleFilter("h", sh), !.i = SampleFilter("i", si),
                             !.x = xx, !.c = Recorder(<<"c1">>)]

InitMonad ==
  /\ test = "monad"
  /\ \E sf \in Shapes, sg \in Shapes, pp \in Producers, xx \in Inputs, cc \in Consumers :
       args = [NoArgs EXCEPT !.f = SampleFilter("f", sf), !.g = SampleFilter("g", sg),
                             !.p = pp, !.x = xx, !.c = cc]

\* Producers of 0..MaxLen values tagged tag.
ProducersOf(tag) == {Produce([k \in 1..n |-> << <<tag, k>> >>]) : n \in 0..MaxLen}

\* The monoid tests: producers p, p1, p2 and consumers c, c1, c2.
InitMonoid ==
  /\ test = "monoid"
  /\ \E pp \in Producers, pp1 \in ProducersOf("q"), pp2 \in ProducersOf("r"),
        cc \in Consumers, cc1 \in Consumers, cc2 \in Consumers :
       args = [NoArgs EXCEPT !.p = pp, !.p1 = pp1, !.p2 = pp2,
                             !.c = cc, !.c1 = cc1, !.c2 = cc2]

\* produce_123, produce_abc, ...: the k-th of 2..MaxArity producers yields
\* up to MaxLen values tagged k.
CrossTags == <<"one", "two", "three", "four">>

RECURSIVE CrossInputs(_)
CrossInputs(n) ==
  IF n = 0 THEN {<<>>}
  ELSE {Append(ps, q) : ps \in CrossInputs(n - 1), q \in ProducersOf(CrossTags[n])}

InitCross ==
  /\ test = "cross"
  /\ \E n \in 2..MaxArity : \E pps \in CrossInputs(n) :
       args = [NoArgs EXCEPT !.ps = pps, !.c = Recorder(<<"c1">>)]

\* produce_fns and produce_123: up to MaxLen functions, up to MaxLen ints.
InitApply ==
  /\ test = "apply"
  /\ \E fs \in SeqsUpTo({"AddTen", "Double"}, MaxLen), n \in 0..MaxLen :
       args = [NoArgs EXCEPT !.p = Produce([k \in 1..Len(fs) |-> IntFn(fs[k])]),
                             !.p1 = Produce([k \in 1..n |-> k]),
                             !.c = Recorder(<<"c1">>)]

Init ==
  /\ \/ InitTee \/ InitForkCross \/ InitMonad
     \/ InitMonoid \/ InitCross \/ InitApply
  /\ pc = "ready"
  /\ expected = <<>>
  /\ actual = <<>>
  /\ company = NoCompany
  /\ company0 = NoCompany
  /\ probe = NewSt(NoCompany)

\* f * (g + h) against f*g + f*h, each run on x into c.
ChainIntoTee ==
  /\ test = "tee" /\ pc = "ready"
  /\ expected' = RunFilter(KleisliComposition(args.f, FPlus(args.g, args.h)),
                           args.x, args.c, NewSt(company)).flight_record_
  /\ actual' = RunFilter(FPlus(KleisliComposition(args.f, args.g),
                               KleisliComposition(args.f, args.h)),
                         args.x, args.c, NewSt(company)).flight_record_
  /\ pc' = "ChainIntoTee"
  /\ UNCHANGED <<test, args, company0, company, probe>>

\* (g + h) * f against g*f + h*f, each run on x into c.
TeeIntoChain ==
  /\ test = "tee" /\ pc = "ready"
  /\ expected' = RunFilter(KleisliComposition(FPlus(args.g, args.h), args.f),
                           args.x, args.c, NewSt(company)).flight_record_
  /\ actual' = RunFilter(FPlus(KleisliComposition(args.g, args.f),
                               KleisliComposition(args.h, args.f)),
                         args.x, args.c, NewSt(company)).flight_record_
  /\ pc' = "TeeIntoChain"
  /\ UNCHANGED <<test, args, company0, company, probe>>

\* FFork(f, h) * FCross(g, i) against FFork(f * g, h * i), each run on x.
ForkIntoCross ==
  /\ test = "forkcross" /\ pc = "ready"
  /\ expected' = RunFilter(KleisliComposition(FFork(<<args.f, args.h>>),
                                              FCross(<<args.g, args.i>>)),
                           args.x, args.c, NewSt(company)).flight_record_
  /\ actual' = RunFilter(FFork(<<KleisliComposition(args.f, args.g),
                                 KleisliComposition(args.h, args.i)>>),
                         args.x, args.c, NewSt(company)).flight_record_
  /\ pc' = "ForkIntoCross"
  /\ UNCHANGED <<test, args, company0, company, probe>>

\* Fusing(p | f | g, c) against Fusing(p | (f * g), c).
Associativity ==
  /\ test = "monad" /\ pc = "ready"
  /\ expected' = Fusing(PBind(PBind(args.p, args.f), args.g), args.c,
                        NewSt(company)).flight_record_
  /\ actual' = Fusing(PBind(args.p, KleisliComposition(args.f, args.g)), args.c,
                      NewSt(company)).flight_record_
  /\ pc' = "Associativity"
  /\ UNCHANGED <<test, args, company0, company, probe>>

\* Fusing(PUnit(a) | f, c) against Fusing(f(a), c).
LeftIdentity ==
  /\ test = "monad" /\ pc = "ready"
  /\ expected' = Fusing(PBind(PUnit(args.x), args.f), args.c,
                        NewSt(company)).flight_record_
  /\ actual' = LET r == Call(args.f, <<args.x>>, NewSt(company))
               IN Fusing(r.ret, args.c, r.st).flight_record_
  /\ pc' = "LeftIdentity"
  /\ UNCHANGED <<test, args, company0, company, probe>>

\* Fusing(p | PUnitFilter, c) against Fusing(p, c).
RightIdentity ==
  /\ test = "monad" /\ pc = "ready"
  /\ expected' = Fusing(args.p, args.c, NewSt(company)).flight_record_
  /\ actual' = Fusing(PBind(args.p, PUnitFilter), args.c,
                      NewSt(company)).flight_record_
  /\ pc' = "RightIdentity"
  /\ UNCHANGED <<test, args, company0, company, probe>>

\* (f * g) * h against f * (g * h), each run on x into c.
ChainAssociativity ==
  /\ test = "tee" /\ pc = "ready"
  /\ expected' = RunFilter(KleisliComposition(KleisliComposition(args.f, args.g),
                                              args.h),
                           args.x, args.c, NewSt(company)).flight_record_
  /\ actual' = RunFilter(KleisliComposition(args.f,
                                            KleisliComposition(args.g, args.h)),
                         args.x, args.c, NewSt(company)).flight_record_
  /\ pc' = "ChainAssociativity"
  /\ UNCHANGED <<test, args, company0, company, probe>>

\* Fusing(p, c) against Fusing(zero + p, c) and Fusing(p + zero, c).
ProducerZero ==
  /\ test = "monoid" /\ pc = "ready"
  /\ expected' = Fusing(args.p, args.c, NewSt(company)).flight_record_
  /\ actual' = << Fusing(PPlus(PZero, args.p), args.c, NewSt(company)).flight_record_,
                  Fusing(PPlus(args.p, PZero), args.c, NewSt(company)).flight_record_ >>
  /\ pc' = "ProducerZero"
  /\ UNCHANGED <<test, args, company0, company, probe>>

\* (p1 + p2)(c) against p1(c), p2(c) on one recorder.
ProducerSum ==
  /\ test = "monoid" /\ pc = "ready"
  /\ expected' = Invoke(args.p2, args.c,
                        Invoke(args.p1, args.c, NewSt(company))).flight_record_
  /\ actual' = Fusing(PPlus(args.p1, args.p2), args.c, NewSt(company)).flight_record_
  /\ pc' = "ProducerSum"
  /\ UNCHANGED <<test, args, company0, company, probe>>

\* Fusing(p + (p1 + p2), c) against Fusing((p + p1) + p2, c).
ProducerAssociativity ==
  /\ test = "monoid" /\ pc = "ready"
  /\ expected' = Fusing(PPlus(args.p, PPlus(args.p1, args.p2)), args.c,
                        NewSt(company)).flight_record_
  /\ actual' = Fusing(PPlus(PPlus(args.p, args.p1), args.p2), args.c,
                      NewSt(company)).flight_record_
  /\ pc' = "ProducerAssociativity"
  /\ UNCHANGED <<test, args, company0, company, probe>>

\* Fusing(p, c) against Fusing(p, zero + c) and Fusing(p, c + zero).
ConsumerZero ==
  /\ test = "monoid" /\ pc = "ready"
  /\ expected' = Fusing(args.p, args.c, NewSt(company)).flight_record_
  /\ actual' = << Fusing(args.p, CPlus(CZero, args.c), NewSt(company)).flight_record_,
                  Fusing(args.p, CPlus(args.c, CZero), NewSt(company)).flight_record_ >>
  /\ pc' = "ConsumerZero"
  /\ UNCHANGED <<test, args, company0, company, probe>>

\* Fusing(p, c + (c1 + c2)) against Fusing(p, (c + c1) + c2).
ConsumerAssociativity ==
  /\ test = "monoid" /\ pc = "ready"
  /\ expected' = Fusing(args.p, CPlus(args.c, CPlus(args.c1, args.c2)),
                        NewSt(company)).flight_record_
  /\ actual' = Fusing(args.p, CPlus(CPlus(args.c, args.c1), args.c2),
                      NewSt(company)).flight_record_
  /\ pc' = "ConsumerAssociativity"
  /\ UNCHANGED <<test, args, company0, company, probe>>

\* p(c1 + c2) against p(c1), p(c2) on one recorder.
ConsumerSum ==
  /\ test = "monoid" /\ pc = "ready"
  /\ expected' = Invoke(args.p, args.c2,
                        Invoke(args.p, args.c1, NewSt(company))).flight_record_
  /\ actual' = Fusing(args.p, CPlus(args.c1, args.c2), NewSt(company)).flight_record_
  /\ pc' = "ConsumerSum"
  /\ UNCHANGED <<test, args, company0, company, probe>>

\* PCross(ps...)(record_tuple).
PCrossRun ==
  /\ test = "cross" /\ pc = "ready"
  /\ actual' = Fusing(PCross(args.ps), args.c, NewSt(company)).flight_record_
  /\ pc' = "PCross"
  /\ UNCHANGED <<test, args, expected, company0, company, probe>>

\* LiftA(IntString)(p1, p2)(record_int_string).
LiftARun ==
  /\ test = "cross" /\ pc = "ready"
  /\ Len(args.ps) = 2
  /\ actual' = Fusing(LiftA(IntString, args.ps), args.c, NewSt(company)).flight_record_
  /\ pc' = "LiftA"
  /\ UNCHANGED <<test, args, expected, company0, company, probe>>

\* PApply(produce_fns, produce_123)(record_int).
PApplyRun ==
  /\ test = "apply" /\ pc = "ready"
  /\ actual' = Fusing(PApply(args.p, args.p1), args.c, NewSt(company)).flight_record_
  /\ pc' = "PApply"
  /\ UNCHANGED <<test, args, expected, company0, company, probe>>

\* PCross(f1(x), ..., fn(x))(c) against FFork(f1, ..., fn)(x)(c), for the
\* first n of the filters f, g, h, i.
ForkIsCross ==
  /\ test = "forkcross" /\ pc = "ready"
  /\ \E n \in 2..MaxArity :
       LET fs == SubSeq(<<args.f, args.g, args.h, args.i>>, 1, n)
           r == ApplyElementwise(fs, [k \in 1..n |-> args.x], 1, <<>>,
                                 NewSt(company))
       IN /\ expected' = Fusing(PCross(r.ret), args.c, r.st).flight_record_
          /\ actual' = RunFilter(FFork(fs), args.x, args.c,
                                 NewSt(company)).flight_record_
  /\ pc' = "ForkIsCross"
  /\ UNCHANGED <<test, args, company0, company, probe>>

\* (FCross(f, h) * FCross(g, i))(x, y) against FCross(f * g, h * i)(x, y).
CrossIntoCross ==
  /\ test = "forkcross" /\ pc = "ready"
  /\ \E y \in Inputs :
       /\ expected' = RunFilter(KleisliComposition(FCross(<<args.f, args.h>>),
                                                   FCross(<<args.g, args.i>>)),
                                <<args.x, y>>, args.c, NewSt(company)).flight_record_
       /\ actual' = RunFilter(FCross(<<KleisliComposition(args.f, args.g),
                                       KleisliComposition(args.h, args.i)>>),
                              <<args.x, y>>, args.c, NewSt(company)).flight_record_
  /\ pc' = "CrossIntoCross"
  /\ UNCHANGED <<test, args, company0, company, probe>>

\* Producer::operator() called twice on one producer q: q(ca); q(cb), the
\* two consumers recording into one recorder, against q(cb) alone.
InvokeTwice ==
  /\ test \in {"monoid", "monad", "cross", "apply"} /\ pc = "ready"
  /\ \E q \in (CASE test = "monoid" ->
                     {PZero, PUnit(args.x), PPlus(args.p1, args.p2)}
                 [] test = "monad" ->
                     {PBind(args.p, args.f),
                      PJoin(Fmap(args.g, Fmap(make_tuple_byval, args.p)))}
                 [] test = "cross" ->
                     {PCross(args.ps), LiftA(IntString, SubSeq(args.ps, 1, 2))}
                 [] test = "apply" -> {PApply(args.p, args.p1)}),
        ca \in {Recorder(<<"first">>), Recorder(<<"second">>)} :
       LET cb == Recorder(<<"second">>)
           s1 == Invoke(q, ca, NewSt(company))
       IN /\ expected' = Invoke(q, cb, NewSt(company)).flight_record_
          /\ actual' = Invoke(q, cb, s1).flight_record_
  /\ pc' = "InvokeTwice"
  /\ UNCHANGED <<test, args, company0, company, probe>>

\* Effect e = Fuse(p, c): the effect is built and kept, nothing is run.
FuseBuild ==
  /\ test = "monoid" /\ pc = "ready"
  /\ args' = [args EXCEPT !.e = Fuse(args.p, args.c)]
  /\ pc' = "Fuse"
  /\ UNCHANGED <<test, expected, actual, company0, company, probe>>

\* e(): the first and the second invocation of the effect built by FuseBuild,
\* on the recorder probe.flight_record_.
EffectRun ==
  /\ pc \in {"Fuse", "Effect"}
  /\ probe' = Fuse_call(args.e.p, args.e.c, probe)
  /\ expected' = probe.flight_record_
  /\ actual' = probe'.flight_record_
  /\ pc' = IF pc = "Fuse" THEN "Effect" ELSE "EffectAgain"
  /\ UNCHANGED <<test, args, company0, company>>

Next ==
  \/ ChainIntoTee
  \/ TeeIntoChain
  \/ ForkIntoCross
  \/ Associativity
  \/ LeftIdentity
  \/ RightIdentity
  \/ ChainAssociativity
  \/ ProducerZero
  \/ ProducerSum
  \/ ProducerAssociativity
  \/ ConsumerZero
  \/ ConsumerAssociativity
  \/ ConsumerSum
  \/ PCrossRun
  \/ LiftARun
  \/ PApplyRun
  \/ ForkIsCross
  \/ CrossIntoCross
  \/ InvokeTwice
  \/ FuseBuild
  \/ EffectRun

Spec == Init /\ [][Next]_vars

(***************************************************************************)
(* The protobuf tests: record trees, pipelines and runs.                   *)
(***************************************************************************)
\* The trees the test setup can build: add_teams(), set_name(),
\* mutable_manager(), add_members(); named says whether set_name was called
\* on the company and on the persons.  A team has a manager or not and up to
\* MaxMembers members; every second team is left without a name.
TeamKinds == [hm : BOOLEAN, n : 0..MaxMembers]

MakePerson(named, tag) ==
  [has_name |-> named, name |-> IF named THEN << tag >> ELSE EmptyString]

MakeTeam(i, k, named) ==
  [has_name |-> i % 2 = 1,
   name |-> IF i % 2 = 1 THEN << <<"team", i, 0>> >> ELSE EmptyString,
   has_manager |-> k.hm,
   manager |-> IF k.hm THEN MakePerson(named, <<"mgr", i, 0>>) ELSE NoPerson,
   members |-> [j \in 1..k.n |-> MakePerson(named, <<"mem", i, j>>)]]

MakeCompany(ks, named) ==
  [has_name |-> named,
   name |-> IF named THEN << <<"company", 0, 0>> >> ELSE EmptyString,
   teams |-> [i \in 1..Len(ks) |-> MakeTeam(i, ks[i], named)]]

Companies ==
  {MakeCompany(ks, named) : ks \in SeqsUpTo(TeamKinds, MaxTeams), named \in BOOLEAN}

\* The string-valued pipelines of TEST(ProtoAccessors, Basics).
into(f, g) == KleisliComposition(f, g)

NameFilters ==
  LET c == CompanyA
      t == TeamA
      p == PersonA
  IN { c.name,
       into(c.teams, t.name),
       into(into(c.teams, t.members), p.name),
       into(into(c.teams, t.manager), p.name),
       into(into(c.teams, FPlus(t.manager, t.members)), p.name),
       into(c.teams, FPlus(into(t.manager, p.name), into(t.members, p.name))),
       FPlus(into(into(c.teams, t.manager), p.name),
             into(into(c.teams, t.members), p.name)) }

\* manager_members_filter.
manager_members_filter ==
  into(CompanyA.teams,
       FFork(<<into(TeamA.manager, PersonA.name), into(TeamA.members, PersonA.name)>>))

\* Traversals of a record tree.
InitTraverse ==
  /\ test = "rw"
  /\ company0 \in Companies
  /\ \E ff \in NameFilters :
       args = [NoArgs EXCEPT !.f = ff, !.g = manager_members_filter]

\* Traversals from a null handle, the caller holding a small tree.
InitNull ==
  /\ test = "null"
  /\ company0 \in {t \in Companies : Len(t.teams) <= 1}
  /\ \E ff \in NameFilters :
       args = [NoArgs EXCEPT !.f = ff, !.g = manager_members_filter]

InitRW ==
  /\ (InitTraverse \/ InitNull)
  /\ company = company0
  /\ pc = "ready"
  /\ expected = <<>>
  /\ actual = <<>>
  /\ probe = NewSt(company0)

\* filter(p)(c) from the traversal state st.
Run(filter, p, c, st) ==
  LET r == Call(filter, <<p>>, st) IN Invoke(r.ret, c, r.st)

\* What a run that ended in state s leaves behind.  A run that dereferenced
\* a null handle has undefined behaviour: it may abort, return with what it
\* delivered so far, or deliver through a wild handle.
Outcomes(s) ==
  IF s.fault
  THEN {[aborted |-> TRUE, actual |-> s.flight_record_],
        [aborted |-> FALSE, actual |-> s.flight_record_],
        [aborted |-> FALSE, actual |-> Append(s.flight_record_, <<NULL, "ptr">>)]}
  ELSE {[aborted |-> FALSE, actual |-> s.flight_record_]}

Finish(s, name) ==
  /\ pc' = name
  /\ \E o \in Outcomes(s) :
       /\ actual' = o.actual
       /\ probe' = [s EXCEPT !.aborted = o.aborted]
  /\ company' = s.company

\* ReadOnly(filter)(company)(add_to_names).
ReadOnlyRun ==
  /\ test = "rw" /\ pc = "ready"
  /\ Finish(Run(ReadOnly(args.f), Root, add_to_names, NewSt(company)), "ReadOnly")
  /\ UNCHANGED <<test, args, expected, company0>>

\* ReadWrite(filter)(&company)(c), c recording the handles it is given.
ReadWriteRun ==
  /\ test = "rw" /\ pc = "ready"
  /\ Finish(Run(ReadWrite(args.f), Root, Recorder(<<"ptr">>), NewSt(company)),
            "ReadWrite")
  /\ UNCHANGED <<test, args, expected, company0>>

\* The mark the rewriting consumer of RoundTrip appends.
Rewritten == <<"rewritten", 0, 0>>

\* RunTestRO(filter), ReadWrite(filter)(&company)(rewriting consumer),
\* RunTestRO(filter).
RoundTrip ==
  /\ test = "rw" /\ pc = "ready"
  /\ LET before == Run(ReadOnly(args.f), Root, add_to_names, NewSt(company))
         s == Run(ReadWrite(args.f), Root, rewrite_name(Rewritten),
                  NewSt(company))
         after == Run(ReadOnly(args.f), Root, add_to_names,
                      [s EXCEPT !.flight_record_ = <<>>])
     IN /\ expected' = before.flight_record_
        /\ Finish(after, "RoundTrip")
  /\ UNCHANGED <<test, args, company0>>

\* ReadWrite(filter)(nullptr)(c).
ReadWriteNull ==
  /\ test = "null" /\ pc = "ready"
  /\ Finish(Run(ReadWrite(args.f), NULL, Recorder(<<"ptr">>), NewSt(company)),
            "ReadWriteNull")
  /\ UNCHANGED <<test, args, expected, company0>>

\* ReadWrite(manager_members_filter)(nullptr)(c), the tuple overload.
ReadWriteTupleNull ==
  /\ test = "null" /\ pc = "ready"
  /\ Finish(Run(ReadWriteTuple(args.g), NULL, Recorder(<<"ptr">>), NewSt(company)),
            "ReadWriteTupleNull")
  /\ UNCHANGED <<test, args, expected, company0>>

\* c.teams, the repeated_obj accessor, run on the company with its mutable
\* handle and without it, into a consumer that records the views.
RepeatedScan ==
  /\ test = "rw" /\ pc = "ready"
  /\ expected' = Run(CompanyA.teams, RW(Root, NULL), Recorder(<<"view">>),
                     NewSt(company)).flight_record_
  /\ Finish(Run(CompanyA.teams, RW(Root, Root), Recorder(<<"view">>),
                NewSt(company)), "RepeatedScan")
  /\ UNCHANGED <<test, args, company0>>

\* ReadOnly(manager_members_filter)(company)(add_manager_member),
\* ReadWrite(manager_members_filter)(&company)(marking consumer),
\* RunTestRO(c.teams * t.members * p.name).
ManagedMembers ==
  /\ test = "rw" /\ pc = "ready"
  /\ args.f = into(into(CompanyA.teams, TeamA.members), PersonA.name)
  /\ LET tuples == Run(ReadOnlyTuple(args.g), Root, add_manager_member,
                       NewSt(company))
         s == Run(ReadWriteTuple(args.g), Root, mark_managed, NewSt(company))
         after == Run(ReadOnly(args.f), Root, add_to_names,
                      [s EXCEPT !.flight_record_ = <<>>])
     IN /\ expected' = tuples.flight_record_
        /\ Finish(after, "ManagedMembers")
  /\ UNCHANGED <<test, args, company0>>

\* auto names = ReadOnly(filter)(company); ReadWrite(filter)(&company)(rewriting
\* consumer); names(add_to_names): the producer is obtained before the record
\* is rewritten and invoked after, against RunTestRO(filter) at that time.
ReadOnlyDeferred ==
  /\ test = "rw" /\ pc = "ready"
  /\ LET r == Call(ReadOnly(args.f), <<Root>>, NewSt(company))
         s == Run(ReadWrite(args.f), Root, rewrite_name(Rewritten), r.st)
         s0 == [s EXCEPT !.flight_record_ = <<>>]
     IN /\ expected' = Run(ReadOnly(args.f), Root, add_to_names, s0).flight_record_
        /\ Finish(Invoke(r.ret, add_to_names, s0), "ReadOnlyDeferred")
  /\ UNCHANGED <<test, args, company0>>

NextRW ==
  \/ ReadOnlyRun
  \/ ReadWriteRun
  \/ RoundTrip
  \/ ReadWriteNull
  \/ ReadWriteTupleNull
  \/ RepeatedScan
  \/ ManagedMembers
  \/ ReadOnlyDeferred

SpecRW == InitRW /\ [][NextRW]_vars

(***************************************************************************)
(* Properties of the filter and producer algebra, checked under Spec.      *)
(***************************************************************************)
\* How often v occurs in the sequence s.
Count(s, v) == Cardinality({k \in 1..Len(s) : s[k] = v})

\* The same values, each the same number of times.
SameBag(s, t) ==
  /\ Len(s) = Len(t)
  /\ \A k \in 1..Len(s) : Count(s, s[k]) = Count(t, s[k])

\* C1 as the specification states it: for every input x and consumer c,
\* (f * (g + h))(x) and (f*g + f*h)(x) deliver the identical sequence of
\* values to c.
C1_ChainIntoTee_SameSequence ==
  pc = "ChainIntoTee" => expected = actual

\* C1: (f * (g + h))(x) and (f*g + f*h)(x) deliver the same values to c, each
\* the same number of times; the two sequences are identical when f yields at
\* most one value for x.
C1_ChainIntoTee_SameValues ==
  pc = "ChainIntoTee" =>
    /\ SameBag(expected, actual)
    /\ Len(args.f.shape) <= 1 => expected = actual

\* f yields two values and g, h one each: the values agree, the orders differ.
C1_Witness ==
  /\ pc = "ChainIntoTee"
  /\ Len(args.f.shape) = 2 /\ Len(args.g.shape) = 1 /\ Len(args.h.shape) = 1
  /\ Len(expected) = 4
  /\ SameBag(expected, actual)
  /\ expected # actual

\* C2: for every input x and consumer c, ((g + h) * k)(x) and (g*k + h*k)(x)
\* deliver the identical sequence of values to c.
C2_TeeIntoChain_SameSequence ==
  pc = "TeeIntoChain" => expected = actual

\* g and h each yield two values, k yields two per value, the consumer
\* records each value twice.
C2_Witness ==
  /\ pc = "TeeIntoChain"
  /\ Len(args.g.shape) = 2 /\ Len(args.h.shape) = 2 /\ Len(args.f.shape) = 2
  /\ args.c = Recorder(<<"c2-1", "c2-2">>)
  /\ Len(actual) = 16
  /\ expected = actual

\* C3: for every input x, (FFork(f, h) * FCross(g, i))(x) and
\* FFork(f * g, h * i)(x) deliver the identical sequence of tuples.
C3_ForkIntoCross_SameSequence ==
  pc = "ForkIntoCross" => expected = actual

\* C9: for every producer p, filters f and g and consumer c, (p | f) | g and
\* p | (f * g) deliver the identical sequence of values to c.
C9_Associativity ==
  pc = "Associativity" => expected = actual

\* p produces two values, f and g each yield two values per input.
C9_Witness ==
  /\ pc = "Associativity"
  /\ Len(args.p.ts) = 2 /\ Len(args.f.shape) = 2 /\ Len(args.g.shape) = 2
  /\ args.f.shape # args.g.shape
  /\ args.c = Recorder(<<"c1">>)
  /\ Len(actual) = 8
  /\ expected = actual

\* C10: for every value a, filter f and consumer c, PUnit(a) | f and f(a)
\* deliver the identical sequence of values to c.
C10_LeftIdentity ==
  pc = "LeftIdentity" => expected = actual

\* f yields two values for a, the consumer records each of them twice.
C10_Witness ==
  /\ pc = "LeftIdentity"
  /\ Len(args.f.shape) = 2
  /\ args.c = Recorder(<<"c2-1", "c2-2">>)
  /\ Len(expected) = 4
  /\ expected = actual

(***************************************************************************)
(* Properties of the read-only and read-write traversals, checked under    *)
(* SpecRW.                                                                 *)
(***************************************************************************)
\* The values a ReadOnly traversal of tree by g delivers.
Values(tree, g) ==
  Run(ReadOnly(g), Root, add_to_names, NewSt(tree)).flight_record_

\* The handles a ReadWrite traversal of tree by g delivers.
Handles(tree, g) ==
  LET fr == Run(ReadWrite(g), Root, Recorder(<<"ptr">>), NewSt(tree)).flight_record_
  IN [k \in 1..Len(fr) |-> fr[k][1]]

\* C4: ReadWrite(f) applied to a null handle delivers nothing, invokes neither
\* f nor any accessor, dereferences nothing and leaves the caller's record as
\* it was.
C4_ReadWriteNull_Empty ==
  pc = "ReadWriteNull" =>
    /\ actual = <<>>
    /\ probe.views = {}
    /\ probe.rwcalls = 0
    /\ ~probe.fault /\ ~probe.aborted
    /\ company = company0

\* The null handle was traversed by a filter that reaches two fields or more
\* of the caller's record.
C4_Witness ==
  /\ pc = "ReadWriteNull"
  /\ Len(Handles(company0, args.f)) >= 2
  /\ actual = <<>>
  /\ probe.views = {}

\* C5: the tuple overload of ReadWrite applied to a null handle delivers
\* nothing and dereferences nothing.
C5_ReadWriteTupleNull_Empty ==
  pc = "ReadWriteTupleNull" =>
    /\ actual = <<>>
    /\ ~probe.fault /\ ~probe.aborted

\* C6: every view handed to a stage or to the consumer during a ReadWrite
\* traversal has a mutable handle, and that handle refers to the object its
\* read-only reference refers to.
C6_ReadWrite_Aliasing ==
  pc = "ReadWrite" =>
    \A v \in probe.views : v.rw # NULL /\ v.rw = v.ro

\* C7: after a ReadWrite traversal by f whose consumer rewrites each field it
\* is handed, a ReadOnly traversal by f delivers the rewritten values in the
\* order of the values before, and a ReadOnly traversal by any filter delivers
\* the value it delivered before for every field f does not reach.
C7_RoundTrip ==
  pc = "RoundTrip" =>
    /\ ~probe.fault /\ ~probe.aborted
    /\ actual = [k \in 1..Len(expected) |-> expected[k] \o <<Rewritten>>]
    /\ LET reached == Handles(company0, args.f)
       IN \A g \in NameFilters :
            LET h == Handles(company0, g)
                b == Values(company0, g)
                a == Values(company, g)
            IN /\ Len(a) = Len(b)
               /\ Len(h) = Len(b)
               /\ \A k \in 1..Len(b) :
                    (\A j \in 1..Len(reached) : reached[j] # h[k]) => a[k] = b[k]

\* Two fields or more were rewritten, in a record that has fields the filter
\* does not reach.
C7_Witness ==
  /\ pc = "RoundTrip"
  /\ Len(actual) >= 2
  /\ actual # expected
  /\ actual[1] # actual[2]
  /\ \E g \in NameFilters :
       /\ Values(company, g) # <<>>
       /\ Values(company, g) = Values(company0, g)

\* C8: a ReadOnly traversal hands every stage and the consumer a view without
\* a mutable handle, invokes no mutable accessor, dereferences no null handle
\* and leaves the record as it was.
C8_ReadOnly_NonMutating ==
  pc = "ReadOnly" =>
    /\ \A v \in probe.views : v.rw = NULL
    /\ probe.rwcalls = 0
    /\ ~probe.fault /\ ~probe.aborted
    /\ company = company0

\* A traversal through three stages or more that delivered two values or
\* more.
C8_Witness ==
  /\ pc = "ReadOnly"
  /\ Cardinality(probe.views) >= 4
  /\ Len(actual) >= 2
  /\ \A v \in probe.views : v.rw = NULL

(***************************************************************************)
(* Monad, monoid and applicative properties, checked under Spec.           *)
(***************************************************************************)
\* The records consumer c makes of the values ts, delivered in order.
RECURSIVE RecordsOf(_, _)
RecordsOf(ts, c) ==
  IF ts = <<>> \/ c.op = "CZero" THEN <<>>
  ELSE IF c.op = "CPlus"
       THEN RecordsOf(<<Head(ts)>>, c.c1) \o RecordsOf(<<Head(ts)>>, c.c2)
            \o RecordsOf(Tail(ts), c)
       ELSE [k \in 1..Len(c.marks) |-> <<Head(ts), c.marks[k]>>]
            \o RecordsOf(Tail(ts), c)

\* C11: for every producer p and consumer c, p | PUnit delivers to c exactly
\* the sequence p delivers: nothing lost, duplicated or reordered.
C11_RightIdentity ==
  pc = "RightIdentity" =>
    /\ actual = expected
    /\ actual = RecordsOf(args.p.ts, args.c)

\* p produces two values and the consumer records each of them twice.
C11_Witness ==
  /\ pc = "RightIdentity"
  /\ Len(args.p.ts) = 2
  /\ args.c = Recorder(<<"c2-1", "c2-2">>)
  /\ Len(actual) = 4
  /\ actual = expected

\* C12: for all filters f, g, h and every input x, ((f * g) * h)(x) and
\* (f * (g * h))(x) deliver the identical sequence of values.
C12_ChainAssociativity ==
  pc = "ChainAssociativity" => expected = actual

\* f, g and h each yield two values per input.
C12_Witness ==
  /\ pc = "ChainAssociativity"
  /\ Len(args.f.shape) = 2 /\ Len(args.g.shape) = 2 /\ Len(args.h.shape) = 2
  /\ args.c = Recorder(<<"c1">>)
  /\ Len(actual) = 8
  /\ expected = actual

\* C13: for every producer p and consumer c, Fuse(PZero() + p, c) and
\* Fuse(p + PZero(), c) each cause the sequence of consumer calls Fuse(p, c)
\* causes.
C13_ProducerZero ==
  pc = "ProducerZero" =>
    /\ actual[1] = expected
    /\ actual[2] = expected
    /\ expected = RecordsOf(args.p.ts, args.c)

\* p produces two values into a recording consumer.
C13_Witness ==
  /\ pc = "ProducerZero"
  /\ Len(args.p.ts) = 2
  /\ args.c = Recorder(<<"c1">>)
  /\ Len(expected) = 2
  /\ actual = <<expected, expected>>

\* C14: p1 + p2 delivers to c all of p1's values and then all of p2's, and
\* p + (p1 + p2) and (p + p1) + p2 cause the identical sequence of consumer
\* calls.
C14_ProducerSum ==
  /\ pc = "ProducerSum" =>
       /\ actual = RecordsOf(args.p1.ts \o args.p2.ts, args.c)
       /\ actual = expected
  /\ pc = "ProducerAssociativity" =>
       /\ expected = actual
       /\ actual = RecordsOf(args.p.ts \o args.p1.ts \o args.p2.ts, args.c)

\* Three producers of two values each, summed into a recording consumer.
C14_Witness ==
  /\ pc = "ProducerAssociativity"
  /\ Len(args.p.ts) = 2 /\ Len(args.p1.ts) = 2 /\ Len(args.p2.ts) = 2
  /\ args.c = Recorder(<<"c1">>)
  /\ Len(actual) = 6
  /\ actual[3][1] = args.p1.ts[1]
  /\ actual[5][1] = args.p2.ts[1]

\* C15: feeding p into CZero() + c or into c + CZero() records the effect
\* sequence of feeding p into c, and feeding p into c + (c1 + c2) records the
\* effect sequence of feeding p into (c + c1) + c2.
C15_ConsumerMonoid ==
  /\ pc = "ConsumerZero" =>
       /\ actual[1] = expected
       /\ actual[2] = expected
  /\ pc = "ConsumerAssociativity" => expected = actual

\* p produces two values into the sum of three recording consumers.
C15_Witness ==
  /\ pc = "ConsumerAssociativity"
  /\ Len(args.p.ts) = 2
  /\ args.c = Recorder(<<"c1">>)
  /\ args.c1 = Recorder(<<"c2-1", "c2-2">>)
  /\ args.c2 = Recorder(<<"c1">>)
  /\ Len(actual) = 8
  /\ expected = actual

\* C16: for every producer p and all consumers c1, c2, invoking p on c1 + c2
\* has the observable effect of invoking p on c1 and then p on c2.
C16_ConsumerSum_Sequential ==
  pc = "ConsumerSum" => actual = expected

\* C17: every value delivered to c1 + c2 is handed to c1 and then to c2
\* before the next value is delivered, each of them receiving every value
\* exactly once.
C17_ConsumerSum_PerValue ==
  pc = "ConsumerSum" =>
    /\ actual = RecordsOf(args.p.ts, CPlus(args.c1, args.c2))
    /\ SameBag(actual, RecordsOf(args.p.ts, args.c1) \o RecordsOf(args.p.ts, args.c2))

\* Two values into the sum of two different recording consumers.
C17_Witness ==
  /\ pc = "ConsumerSum"
  /\ Len(args.p.ts) = 2
  /\ args.c1 = Recorder(<<"c1">>)
  /\ args.c2 = Recorder(<<"c2-1", "c2-2">>)
  /\ Len(actual) = 6
  /\ actual[1] = <<args.p.ts[1], "c1">>
  /\ actual[2] = <<args.p.ts[1], "c2-1">>
  /\ actual[4] = <<args.p.ts[2], "c1">>

\* The tuples of one value from each of the sequences tss, in lexicographic
\* order of the indices: the first sequence varies slowest.
RECURSIVE LexTuples(_)
RECURSIVE LexPrefixed(_, _, _)
LexPrefixed(ts, k, rest) ==
  IF k > Len(ts) THEN <<>>
  ELSE [j \in 1..Len(rest) |-> <<ts[k]>> \o rest[j]] \o LexPrefixed(ts, k + 1, rest)

LexTuples(tss) ==
  IF tss = <<>> THEN << <<>> >>
  ELSE LexPrefixed(Head(tss), 1, LexTuples(Tail(tss)))

\* C18: PCross(p1, ..., pn), and LiftA(f)(p1, p2) for a binary f, deliver one
\* result per combination of produced values, in lexicographic order of the
\* indices with the left-most producer slowest; nothing when a producer is
\* empty.
C18_CrossOrdering ==
  pc \in {"PCross", "LiftA"} =>
    LET lex == LexTuples([k \in 1..Len(args.ps) |-> args.ps[k].ts])
    IN actual = [k \in 1..Len(lex) |-> <<lex[k], "c1">>]

\* Three producers of two values each.
C18_Witness ==
  /\ pc = "PCross"
  /\ Len(args.ps) = 3
  /\ \A k \in 1..3 : Len(args.ps[k].ts) = 2
  /\ Len(actual) = 8
  /\ actual[2][1] = <<args.ps[1].ts[1], args.ps[2].ts[1], args.ps[3].ts[2]>>

\* C19: PApply(pf, pa) delivers, for each function of pf in pf's order, that
\* function applied to every value of pa in pa's order.
C19_PApplyOrdering ==
  pc = "PApply" =>
    LET fs == args.p.ts
        as == args.p1.ts
        n == Len(as)
    IN /\ Len(actual) = Len(fs) * n
       /\ \A i \in 1..Len(fs), j \in 1..n :
            actual[(i - 1) * n + j] =
              << IF fs[i].kind = "AddTen" THEN as[j] + 10 ELSE 2 * as[j], "c1" >>

\* AddTen and Double over 1, 2.
C19_Witness ==
  /\ pc = "PApply"
  /\ args.p.ts = <<IntFn("AddTen"), IntFn("Double")>>
  /\ args.p1.ts = <<1, 2>>
  /\ actual = << <<11, "c1">>, <<12, "c1">>, <<2, "c1">>, <<4, "c1">> >>

\* C20: for all filters f1..fn and every input x, FFork(f1, ..., fn)(x)
\* delivers the tuple sequence PCross(f1(x), ..., fn(x)) delivers.
C20_ForkIsCross ==
  pc = "ForkIsCross" => expected = actual

\* Three filters of two outputs each.
C20_Witness ==
  /\ pc = "ForkIsCross"
  /\ Len(args.f.shape) = 2 /\ Len(args.g.shape) = 2 /\ Len(args.h.shape) = 2
  /\ Len(actual) = 8
  /\ expected = actual

(***************************************************************************)
(* Cross products, statelessness and deferral, checked under Spec.         *)
(***************************************************************************)
\* C21: for all filters f, h, g, i and every input tuple (x, y),
\* (FCross(f, h) * FCross(g, i))(x, y) and FCross(f * g, h * i)(x, y) deliver
\* the identical sequence of tuples.
C21_CrossIntoCross_SameSequence ==
  pc = "CrossIntoCross" => expected = actual

\* The recorded value went through the sample filter tagged tag.
Through(rec, tag) == \E j \in 1..Len(rec[1]) : rec[1][j][1] = tag

\* C25: for all filters f, g, h and every input x, (f * (g + h))(x) and
\* (f*g + f*h)(x) deliver the same multiset of values, and f*g + f*h delivers
\* every value of the g branch before any value of the h branch.
C25_LeftDistribution_OrderOnly ==
  pc = "ChainIntoTee" =>
    /\ SameBag(expected, actual)
    /\ \A i, j \in 1..Len(actual) :
         (Through(actual[i], "h") /\ Through(actual[j], "g")) => j < i

\* f yields two values, g and h at least one each: the two sides differ in
\* order only.
C25_Witness ==
  /\ pc = "ChainIntoTee"
  /\ Len(args.f.shape) = 2 /\ Len(args.g.shape) >= 1 /\ Len(args.h.shape) = 2
  /\ args.c = Recorder(<<"c2-1", "c2-2">>)
  /\ expected # actual
  /\ SameBag(expected, actual)
  /\ Through(actual[1], "g") /\ Through(actual[Len(actual)], "h")
  /\ Through(expected[Len(expected)], "h")

C28_FuseDefers ==
  LET once == RecordsOf(args.e.p.ts, args.e.c)
  IN /\ pc = "Fuse" => (args.e = Fuse(args.p, args.c) /\ probe.flight_record_ = <<>>)
     /\ pc = "Effect" =>
          (expected = <<>> /\ actual = once /\ probe.flight_record_ = once)
     /\ pc = "EffectAgain" =>
          /\ expected = once
          /\ actual = once \o once
          /\ probe.flight_record_ = once \o once

\* An effect over two values and the consumer that records each value twice,
\* after its second invocation.
C28_Witness ==
  /\ pc = "EffectAgain"
  /\ Len(args.e.p.ts) = 2
  /\ args.e.c = Recorder(<<"c2-1", "c2-2">>)
  /\ Len(expected) = 4
  /\ Len(actual) = 8

(***************************************************************************)
(* Properties of the accessor filters and of the traversals of the record  *)
(* tree, checked under SpecRW.                                             *)
(***************************************************************************)
\* The names of the teams that have a name set, in collection order.
RECURSIVE NamedTeams(_)
NamedTeams(teams) ==
  IF teams = <<>> THEN <<>>
  ELSE (IF Head(teams).has_name THEN <<Head(teams).name>> ELSE <<>>)
       \o NamedTeams(Tail(teams))

C23_RepeatedViews ==
  pc = "RepeatedScan" =>
    LET coll == At(Root, "teams", 0)
        n == Len(company0.teams)
    IN /\ actual = [k \in 1..n |->
                      <<RW(At(coll, "elem", k), At(coll, "elem", k)), "view">>]
       /\ expected = [k \in 1..n |-> <<RW(At(coll, "elem", k), NULL), "view">>]
       /\ ~probe.fault /\ ~probe.aborted
       /\ company = company0

\* A collection of two elements or more was scanned.
C23_Witness ==
  /\ pc = "RepeatedScan"
  /\ Len(actual) >= 2 /\ Len(expected) = Len(actual)
  /\ actual[2][1].rw = actual[2][1].ro
  /\ actual[1][1].rw # actual[2][1].rw
  /\ expected[2][1].rw = NULL

\* For each team in order: its manager's name, if it has a manager, then its
\* members' names in member order.
RECURSIVE ManagerThenMembers(_)
ManagerThenMembers(teams) ==
  IF teams = <<>> THEN <<>>
  ELSE LET t == Head(teams)
       IN (IF t.has_manager THEN <<t.manager.name>> ELSE <<>>)
          \o [j \in 1..Len(t.members) |-> t.members[j].name]
          \o ManagerThenMembers(Tail(teams))

\* C24: ReadOnly(companyTeams * (teamManager + teamMembers) * personName)
\* delivers, for each team in company order, the manager's name if the team
\* has a manager, then that team's members' names in member order, before any
\* name of a later team.
C24_TeeThenChain_Order ==
  (pc = "ReadOnly"
   /\ args.f = into(into(CompanyA.teams, FPlus(TeamA.manager, TeamA.members)),
                    PersonA.name)) =>
    /\ actual = ManagerThenMembers(company0.teams)
    /\ ~probe.fault /\ ~probe.aborted

\* Two teams or more of named persons, an earlier one with a manager and a
\* member.
C24_Witness ==
  /\ pc = "ReadOnly"
  /\ args.f = into(into(CompanyA.teams, FPlus(TeamA.manager, TeamA.members)),
                   PersonA.name)
  /\ Len(company0.teams) >= 2
  /\ company0.teams[1].has_manager /\ company0.teams[1].manager.has_name
  /\ Len(company0.teams[1].members) >= 1
  /\ Len(actual) >= 3
  /\ actual[1] = company0.teams[1].manager.name
  /\ actual[2] = company0.teams[1].members[1].name
  /\ actual[1] # actual[2]

\* The concatenation of a sequence of sequences.
RECURSIVE Flat(_)
Flat(ss) == IF ss = <<>> THEN <<>> ELSE Head(ss) \o Flat(Tail(ss))

\* What is expected of a traversal by manager_members_filter: per(t, i, j) for
\* member j of each team i that has a manager, in team then member order.
PerManagedMember(teams, per(_, _, _)) ==
  Flat([i \in 1..Len(teams) |->
          IF teams[i].has_manager
          THEN [j \in 1..Len(teams[i].members) |-> per(teams[i], i, j)]
          ELSE <<>>])

\* The tuples of handles a ReadWrite traversal of tree by the tuple filter g
\* delivers.
HandleTuples(tree, g) ==
  LET fr == Run(ReadWriteTuple(g), Root, Recorder(<<"ptr">>),
                NewSt(tree)).flight_record_
  IN [k \in 1..Len(fr) |-> fr[k][1]]

\* C26: for teams * Fork(manager * name, members * name), the ReadOnly
\* projection delivers one (manager name, member name) tuple per member of
\* each team that has a manager, in team then member order; the ReadWrite
\* projection delivers the tuples of handles to the same fields in the same
\* order and positions; and a consumer that writes through the second handle
\* changes the names of the managed members and no other name.
C26_ForkTupleProjections ==
  pc = "ManagedMembers" =>
    LET teams == company0.teams
        TeamAt(i) == At(At(Root, "teams", 0), "elem", i)
        Names(t, i, j) == <<t.manager.name, t.members[j].name>>
        Fields(t, i, j) ==
          <<At(At(TeamAt(i), "manager", 0), "name", 0),
            At(At(At(TeamAt(i), "members", 0), "elem", j), "name", 0)>>
    IN /\ ~probe.fault /\ ~probe.aborted
       /\ expected = PerManagedMember(teams, Names)
       /\ HandleTuples(company0, args.g) = PerManagedMember(teams, Fields)
       /\ actual = Flat([i \in 1..Len(teams) |->
                           [j \in 1..Len(teams[i].members) |->
                              IF teams[i].has_manager
                              THEN teams[i].members[j].name \o <<Managed>>
                              ELSE teams[i].members[j].name]])
       /\ \A g \in {CompanyA.name, into(CompanyA.teams, TeamA.name),
                     into(into(CompanyA.teams, TeamA.manager), PersonA.name)} :
            Values(company, g) = Values(company0, g)

\* Two teams, the first of them with a manager and a member, all persons
\* named: one tuple was delivered and one member marked.
C26_Witness ==
  /\ pc = "ManagedMembers"
  /\ Len(company0.teams) >= 2
  /\ company0.teams[1].has_manager /\ Len(company0.teams[1].members) >= 1
  /\ company0.teams[1].manager.has_name
  /\ \E i \in 1..Len(company0.teams) :
       ~company0.teams[i].has_manager /\ Len(company0.teams[i].members) >= 1
  /\ Len(expected) >= 1
  /\ expected[1] = <<company0.teams[1].manager.name,
                     company0.teams[1].members[1].name>>
  /\ expected[1][1] # expected[1][2]
  /\ actual[1] = expected[1][2] \o <<Managed>>
  /\ \E k \in 1..Len(actual) : actual[k] # <<>> /\ actual[k][Len(actual[k])] # Managed

\* C29: a producer obtained as ReadOnly(rwf)(record) and invoked after the
\* record has been rewritten through ReadWrite(rwf) delivers the values the
\* record holds when the producer is invoked.
C29_ReadOnly_Borrows ==
  pc = "ReadOnlyDeferred" => actual = expected

\* C30: optional_obj calls the mutable accessor of a field only when the
\* presence test on the record succeeded: after a ReadWrite traversal whose
\* consumer writes nothing, a manager or a team name that was absent before
\* is still absent, and the traversal of the team names has made one mutable
\* access per team name present.
C30_AbsentStaysAbsent ==
  pc = "ReadWrite" =>
    /\ ~probe.fault
    /\ Len(company.teams) = Len(company0.teams)
    /\ \A i \in 1..Len(company0.teams) :
         /\ ~company0.teams[i].has_manager => ~company.teams[i].has_manager
         /\ ~company0.teams[i].has_name => ~company.teams[i].has_name
    /\ args.f = into(CompanyA.teams, TeamA.name) =>
         probe.rwcalls = 1 + Len(company0.teams) + Len(NamedTeams(company0.teams))

\* Two teams, the second without a name: the traversal of the team names
\* hands over the first team's name and leaves the second team as it was.
C30_Witness ==
  /\ pc = "ReadWrite"
  /\ args.f = into(CompanyA.teams, TeamA.name)
  /\ Len(company0.teams) = 2
  /\ company0.teams[1].has_name /\ ~company0.teams[2].has_name
  /\ ~company0.teams[2].has_manager
  /\ Len(actual) = 1
  /\ company.teams[2] = company0.teams[2]

====
